---- MODULE Spec2Model ----
(***************************************************************************)
(* Hazard Register Engine of the FHA tool.                                 *)
(*                                                                         *)
(* The repository holds three programs around one register class:          *)
(*   "gui"  : fha_main_window.py on top of fha_core_logic.FHA_Model        *)
(*   "api0" : fha_api_new/fha_api0.py on top of fha_core_logic.FHA_Model   *)
(*   "api"  : fha_api.py with its own FHA_Model                            *)
(* The register is a pandas DataFrame: an ordered list of column names     *)
(* and an ordered list of rows, each row carrying an index label and one   *)
(* cell per column.  Label-based (.loc, drop) and position-based (.iloc,   *)
(* iterrows order) accesses are modelled separately.                       *)
(*                                                                         *)
(* The column names of the source are Chinese; they are transliterated:    *)
(*   ID, Func1, Func2, Func3, FuncType, Phase, FailureMode, ImpactVehicle, *)
(*   ImpactAirGround, ImpactGroundCtrl, Severity, Rationale.               *)
(* The five severity labels keep their English half and carry the pinyin   *)
(* of their Chinese half: "zainande (Catastrophic)" and so on.             *)
(*                                                                         *)
(* Three specifications share the register operations:                     *)
(*   Spec         : the mutation operations of the register                *)
(*   SnapshotSpec : mutations next to a consumer that holds the result of  *)
(*                  get_dataframe / get_fha_data                           *)
(*   ReportSpec   : the register filled with analysed entries and the      *)
(*                  dashboard queries run against it                       *)
(***************************************************************************)
EXTENDS Integers, Sequences, FiniteSets, TLC

VARIABLES
    host,       \* which of the three programs is running
    dataframe,  \* FHA_Model.dataframe, the register
    last,       \* the last operation issued, its arguments and its outcome
    ops,        \* number of operations issued so far
    snapshot,   \* the table a consumer obtained from the register, if any
    projects_db, \* fha_api0.projects_db: project id -> name and model
    models,     \* the FHA_Model instances created so far, by identity
    uuids,      \* the identifiers uuid4 has handed out
    threads     \* the requests in flight in the worker threads of fha_api

\* the project store of fha_api0
store == <<projects_db, models, uuids>>

vars == <<host, dataframe, last, ops, snapshot, store, threads>>

(* ------------------------------ bounds --------------------------------- *)
\* largest number of rows a register may reach in the explored behaviours
MaxRows == 3
\* largest number of operations issued in one explored behaviour
MaxOps == 3
\* largest number of requests sent to the project store in one behaviour
MaxRequests == 4
\* a position that is never a valid row position
OutPos == MaxRows + 6

(* ----------------------------- constants ------------------------------- *)
TABLE_COLUMNS ==
    << "ID", "Func1", "Func2", "Func3", "FuncType", "Phase",
       "FailureMode",
       "ImpactVehicle", "ImpactAirGround", "ImpactGroundCtrl",
       "Severity", "Rationale" >>

\* the severity labels of FHA_Model.ARP4761_CATEGORIES
CATASTROPHIC == "zainande (Catastrophic)"
HAZARDOUS == "weixiande (Hazardous)"
MAJOR == "yanzhongde (Major)"
MINOR == "qingweide (Minor)"
NO_SAFETY_EFFECT == "wuanquanyingxiang (No Safety Effect)"

ARP4761_CATEGORIES ==
    << "", CATASTROPHIC, HAZARDOUS, MAJOR, MINOR, NO_SAFETY_EFFECT >>

\* pandas' missing-value marker (numpy.nan)
NaN == "<NaN>"

\* a cell that holds the number 7 rather than text (read_excel without
\* astype(str) keeps numeric cells numeric)
Num7 == "<7>"
NumericCells == {Num7}

Hosts == {"gui", "api0", "api"}
\* the hosts whose register is fha_core_logic.FHA_Model
CoreHosts == {"gui", "api0"}

(* ------------------------- sequence helpers ---------------------------- *)
Range(s) == {s[i] : i \in DOMAIN s}

Min(a, b) == IF a < b THEN a ELSE b

\* Python slice s[lo:hi] on a sequence, with Python's clamping of
\* negative and oversized bounds (0-based, hi exclusive)
PyBound(i, n) ==
    IF i < 0 THEN (IF n + i > 0 THEN n + i ELSE 0) ELSE Min(i, n)
PySlice(s, lo, hi) ==
    LET n == Len(s)
        a == PyBound(lo, n)
        b == PyBound(hi, n)
    IN  IF b <= a THEN <<>> ELSE SubSeq(s, a + 1, b)

\* the rows of s whose label is in keep, in order
RECURSIVE SelectRows(_, _)
SelectRows(s, keep) ==
    IF s = <<>> THEN <<>>
    ELSE IF Head(s).label \in keep
         THEN <<Head(s)>> \o SelectRows(Tail(s), keep)
         ELSE SelectRows(Tail(s), keep)

\* dict.get(k, default)
DictGet(d, k, default) == IF k \in DOMAIN d THEN d[k] ELSE default

(* -------------------------- DataFrame algebra -------------------------- *)
Labels(df) == {df.rows[i].label : i \in DOMAIN df.rows}

\* DataFrame.empty: some axis has length 0
IsEmpty(df) == Len(df.rows) = 0 \/ Len(df.columns) = 0

\* pd.DataFrame(columns=TABLE_COLUMNS)
new_blank_dataframe == [columns |-> TABLE_COLUMNS, rows |-> <<>>]

\* df.reindex(columns=cols): keep the listed columns, NaN where absent
Reindex(df, cols) ==
    [columns |-> cols,
     rows |-> [i \in DOMAIN df.rows |->
                 [label |-> df.rows[i].label,
                  cells |-> [c \in Range(cols) |->
                               DictGet(df.rows[i].cells, c, NaN)]]]]

\* df.fillna(v)
Fillna(df, v) ==
    [columns |-> df.columns,
     rows |-> [i \in DOMAIN df.rows |->
                 [label |-> df.rows[i].label,
                  cells |-> [c \in DOMAIN df.rows[i].cells |->
                               IF df.rows[i].cells[c] = NaN THEN v
                               ELSE df.rows[i].cells[c]]]]]

\* df.reset_index(drop=True): labels become 0..n-1
ResetIndex(df) ==
    [columns |-> df.columns,
     rows |-> [i \in DOMAIN df.rows |->
                 [label |-> i - 1, cells |-> df.rows[i].cells]]]

\* the columns of b that a lacks, in b's order
RECURSIVE NewColumns(_, _)
NewColumns(a, b) ==
    IF b = <<>> THEN <<>>
    ELSE IF Head(b) \in Range(a) THEN NewColumns(a, Tail(b))
         ELSE <<Head(b)>> \o NewColumns(a \o <<Head(b)>>, Tail(b))

\* pd.concat([a, b], ignore_index=True): outer join of the columns in
\* order of appearance, rows of a then rows of b, labels 0..n-1
Concat2(a, b) ==
    LET cols == a.columns \o NewColumns(a.columns, b.columns)
    IN  ResetIndex([columns |-> cols,
                    rows |-> Reindex(a, cols).rows \o Reindex(b, cols).rows])

\* df.loc[label, col] = value, with pandas' setting-with-enlargement: a
\* missing label appends a row of NaN, a missing column appends a column of
\* NaN, then every row carrying the label takes the value
LocSet(df, label, col, value) ==
    LET rows1 == IF label \in Labels(df) THEN df.rows
                 ELSE Append(df.rows,
                             [label |-> label,
                              cells |-> [c \in Range(df.columns) |-> NaN]])
        cols1 == IF col \in Range(df.columns) THEN df.columns
                 ELSE Append(df.columns, col)
    IN  [columns |-> cols1,
         rows |-> [i \in DOMAIN rows1 |->
                     [label |-> rows1[i].label,
                      cells |-> [c \in Range(cols1) |->
                                   IF c = col /\ rows1[i].label = label
                                   THEN value
                                   ELSE DictGet(rows1[i].cells, c, NaN)]]]]

\* df.iloc[row, col] = value for a valid position pair
IlocSet(df, row, col, value) ==
    [columns |-> df.columns,
     rows |-> [i \in DOMAIN df.rows |->
                 IF i = row + 1
                 THEN [label |-> df.rows[i].label,
                       cells |-> [c \in DOMAIN df.rows[i].cells |->
                                    IF c = df.columns[col + 1] THEN value
                                    ELSE df.rows[i].cells[c]]]
                 ELSE df.rows[i]]]

(* ----------------------------- identifiers ----------------------------- *)
\* f"{n:03d}"
Pad3(n) ==
    IF n < 10 THEN "00" \o ToString(n)
    ELSE IF n < 100 THEN "0" \o ToString(n)
    ELSE ToString(n)

\* f"FHA-{i + 1:03d}" for the 0-based position i
FormatId(i) == "FHA-" \o Pad3(i + 1)

\* for i in range(from, n): df.loc[i, ID] = f"FHA-{i + 1:03d}"
RECURSIVE RenumberFrom(_, _, _)
RenumberFrom(df, i, n) ==
    IF i >= n THEN df
    ELSE RenumberFrom(LocSet(df, i, "ID", FormatId(i)), i + 1, n)

\* fha_core_logic.FHA_Model.re_number_ids
core_re_number_ids(df) == RenumberFrom(df, 0, Len(df.rows))

\* fha_api.FHA_Model.re_number_ids
api_re_number_ids(df) ==
    IF IsEmpty(df) THEN df ELSE RenumberFrom(df, 0, Len(df.rows))

(* ------------------------ register operations -------------------------- *)
\* outcome of one call: the register afterwards and the exception raised
\* ("ok" when the call returns normally)
Ret(df, err) == [df |-> df, err |-> err]

\* pd.DataFrame(list_of_dicts, columns=TABLE_COLUMNS) with a dict lookup
\* that yields `missing` for an absent key
FrameOfDicts(dicts, missing) ==
    [columns |-> TABLE_COLUMNS,
     rows |-> [i \in DOMAIN dicts |->
                 [label |-> i - 1,
                  cells |-> [k \in Range(TABLE_COLUMNS) |->
                               DictGet(dicts[i], k, missing)]]]]

\* fha_core_logic.FHA_Model.load_dataframe.  next_id is not modelled, but
\* the .str accessor that computes it is: it raises AttributeError on a
\* column of numeric dtype, after the register has been replaced
core_load_dataframe(df_in) ==
    LET df == Fillna(Reindex(df_in, TABLE_COLUMNS), "")
    IN  IF /\ ~IsEmpty(df)
           /\ \A i \in DOMAIN df.rows : df.rows[i].cells["ID"] \in NumericCells
        THEN Ret(df, "AttributeError")
        ELSE Ret(df, "ok")

\* fha_api.FHA_Model.load_dataframe
api_load_dataframe(df_in) ==
    Ret(api_re_number_ids(
            Fillna(Reindex(ResetIndex(df_in), TABLE_COLUMNS), "")), "ok")

\* add_fha_entries without its early return on an empty list
core_add_fha_entries_unguarded(df, entries_list) ==
    Ret(core_re_number_ids(Concat2(df, FrameOfDicts(entries_list, ""))), "ok")

\* fha_core_logic.FHA_Model.add_fha_entries
core_add_fha_entries(df, entries_list) ==
    IF entries_list = <<>> THEN Ret(df, "ok")
    ELSE Ret(core_re_number_ids(
                 Concat2(df, FrameOfDicts(entries_list, ""))), "ok")

\* fha_api.FHA_Model.add_fha_entries
api_add_fha_entries(df, entries_list) ==
    IF entries_list = <<>> THEN Ret(df, "ok")
    ELSE Ret(api_re_number_ids(
                 Concat2(df, Fillna(FrameOfDicts(entries_list, NaN), ""))),
             "ok")

\* Series.update(other): aligned on the Series' own index, only the
\* non-missing values of other are taken
SeriesUpdate(series, other) ==
    [c \in DOMAIN series |->
        IF c \in DOMAIN other /\ other[c] # NaN THEN other[c] ELSE series[c]]

\* df.loc[label] for a label carried by exactly one row
LocRow(df, label) ==
    (CHOOSE i \in DOMAIN df.rows : df.rows[i].label = label)

\* the three frames concatenated by update_fha_entries_from_wizard
WizardFrames(df, source_index, wizard_results) ==
    LET source_row_data == df.rows[LocRow(df, source_index)].cells
        n == Len(df.rows)
        df_before == [columns |-> df.columns,
                      rows |-> PySlice(df.rows, 0, source_index)]
        df_after == [columns |-> df.columns,
                     rows |-> PySlice(df.rows, source_index + 1, n)]
        df_updated ==
            Reindex([columns |-> df.columns,
                     rows |-> [k \in DOMAIN wizard_results |->
                                 [label |-> source_index,
                                  cells |-> SeriesUpdate(source_row_data,
                                                         wizard_results[k])]]],
                    TABLE_COLUMNS)
    IN  Concat2(Concat2(df_before, df_updated), df_after)

\* update_fha_entries_from_wizard without its early return on an empty list
core_update_from_wizard_unguarded(df, source_index, wizard_results) ==
    IF source_index \notin Labels(df) THEN Ret(df, "KeyError")
    ELSE Ret(core_re_number_ids(
                 WizardFrames(df, source_index, wizard_results)), "ok")

\* fha_core_logic.FHA_Model.update_fha_entries_from_wizard
core_update_fha_entries_from_wizard(df, source_index, wizard_results) ==
    IF wizard_results = <<>> THEN Ret(df, "ok")
    ELSE IF source_index \notin Labels(df) THEN Ret(df, "KeyError")
    ELSE Ret(core_re_number_ids(
                 WizardFrames(df, source_index, wizard_results)), "ok")

\* fha_api.FHA_Model.update_fha_entries_from_wizard
api_update_fha_entries_from_wizard(df, source_index, wizard_results) ==
    IF wizard_results = <<>> THEN Ret(df, "ok")
    ELSE IF source_index \notin Labels(df) THEN Ret(df, "KeyError")
    ELSE Ret(api_re_number_ids(
                 WizardFrames(df, source_index, wizard_results)), "ok")

\* fha_core_logic.FHA_Model.delete_rows: DataFrame.drop is label based and
\* raises KeyError, before removing anything, when a label is absent
core_delete_rows(df, row_indices) ==
    IF row_indices = <<>> THEN Ret(df, "ok")
    ELSE IF \E l \in Range(row_indices) : l \notin Labels(df)
         THEN Ret(df, "KeyError")
    ELSE Ret(core_re_number_ids(
                 ResetIndex([columns |-> df.columns,
                             rows |-> SelectRows(df.rows,
                                         Labels(df) \ Range(row_indices))])),
             "ok")

\* fha_api.FHA_Model.delete_rows: keeps the rows whose iterrows() label is
\* not in the set of the listed numbers
api_delete_rows(df, row_indices) ==
    IF row_indices = <<>> \/ IsEmpty(df) THEN Ret(df, "ok")
    ELSE LET positions_to_delete == Range(row_indices)
             rows_to_keep == SelectRows(df.rows,
                                        Labels(df) \ positions_to_delete)
         IN  IF rows_to_keep = <<>>
             THEN Ret(api_re_number_ids(new_blank_dataframe), "ok")
             ELSE Ret(api_re_number_ids(
                          ResetIndex([columns |-> df.columns,
                                      rows |-> rows_to_keep])), "ok")

\* fha_api.FHA_Model.update_cell
api_update_cell(df, row_index, column_name, new_value) ==
    IF row_index >= Len(df.rows) \/ column_name \notin Range(df.columns)
    THEN Ret(df, "IndexError")
    ELSE Ret(LocSet(df, row_index, column_name, new_value), "ok")

(* ------------------------- handlers with logic ------------------------- *)
\* Python's None
None == "<None>"

\* fha_api.update_cell (PATCH /fha/cell/update): the model call, then the
\* read-back dataframe.iloc[row_index]; IndexError from either is answered
\* with 404
api_update_cell_handler(df, row_index, column_name, new_value) ==
    LET r == api_update_cell(df, row_index, column_name, new_value)
        n == Len(r.df.rows)
    IN  IF r.err = "IndexError" THEN Ret(r.df, "HTTP404")
        ELSE IF row_index >= n \/ row_index < -n THEN Ret(r.df, "HTTP404")
        ELSE Ret(r.df, "ok")

\* the field names of fha_api0.FHAEntryUpdate in declaration order; two of
\* them differ from the column they stand for (the column is the alias)
UPDATE_FIELDS ==
    << "Func1", "Func2", "Func3", "FuncType", "Phase", "FailureMode",
       "ImpactVehicle", "ImpactAirOrGround", "ImpactGroundCtrl",
       "Severity", "RationaleOrNote" >>

\* FHAEntryUpdate(...).dict(): every field, None unless supplied, except
\* the last one whose default is ""
EntryUpdateDict(body) ==
    [k \in Range(UPDATE_FIELDS) |->
        IF k \in DOMAIN body THEN body[k]
        ELSE IF k = "RationaleOrNote" THEN "" ELSE None]

\* for key, value in update_data.items(): df.loc[entry_index, key] = value
RECURSIVE ApplyUpdateData(_, _, _, _)
ApplyUpdateData(df, entry_index, d, i) ==
    IF i > Len(UPDATE_FIELDS) THEN df
    ELSE IF d[UPDATE_FIELDS[i]] = None
         THEN ApplyUpdateData(df, entry_index, d, i + 1)
         ELSE ApplyUpdateData(
                  LocSet(df, entry_index, UPDATE_FIELDS[i],
                         d[UPDATE_FIELDS[i]]),
                  entry_index, d, i + 1)

\* fha_api0.update_entry (PUT /projects/{id}/entries/{entry_index})
api0_update_entry(df, entry_index, body) ==
    IF entry_index >= Len(df.rows) THEN Ret(df, "HTTP404")
    ELSE Ret(ApplyUpdateData(df, entry_index, EntryUpdateDict(body), 1),
             "ok")

\* fha_api0.run_analysis_wizard: the loop that assembles final_results
\* reads result.<name> for two names that WizardResult does not declare,
\* so any non-empty list raises AttributeError (answered with 500)
api0_run_analysis_wizard(df, source_index, results) ==
    IF source_index >= Len(df.rows) THEN Ret(df, "HTTP404")
    ELSE IF results # <<>> THEN Ret(df, "HTTP500")
    ELSE LET r == core_update_fha_entries_from_wizard(df, source_index, <<>>)
         IN  IF r.err = "ok" THEN r ELSE Ret(r.df, "HTTP500")

\* fha_core_logic.PandasModel.setData under EditRole
gui_setData(df, row, column, value) ==
    Ret(IlocSet(df, row, column, value), "ok")

\* the field names of fha_api0.FHAEntry in declaration order; two of them
\* differ from the column they stand for (the column is the alias)
ENTRY_FIELDS == << "ID" >> \o UPDATE_FIELDS

\* the field a request key populates: pydantic accepts the alias and,
\* with allow_population_by_field_name, the field name
FieldOfKey(k) ==
    IF k = "ImpactAirGround" THEN "ImpactAirOrGround"
    ELSE IF k = "Rationale" THEN "RationaleOrNote"
    ELSE k

\* FHAEntry(**body).dict(): every field under its field name, "" unless
\* the request supplies it
EntryDict(body) ==
    [f \in Range(ENTRY_FIELDS) |->
        IF \E k \in DOMAIN body : FieldOfKey(k) = f
        THEN body[CHOOSE k \in DOMAIN body : FieldOfKey(k) = f]
        ELSE ""]

\* fha_api0.add_entry (POST /projects/{id}/entries)
api0_add_entry(df, body) == core_add_fha_entries(df, <<EntryDict(body)>>)

\* fha_api0.import_excel: the sheet goes to load_dataframe as read_excel
\* returned it; any exception is answered with 400
api0_import_excel(df, df_in) ==
    LET r == core_load_dataframe(df_in)
    IN  IF r.err = "ok" THEN r ELSE Ret(r.df, "HTTP400")

(* ------------------------------ snapshots ------------------------------ *)
\* what a consumer holds: nothing, the register's own DataFrame object
\* (alias) or a separate table
NoSnapshot == [held |-> FALSE, alias |-> FALSE, df |-> new_blank_dataframe]

\* fha_core_logic.FHA_Model.get_dataframe: return self.dataframe
core_get_dataframe(df) == [held |-> TRUE, alias |-> TRUE, df |-> df]

\* fha_api.get_fha_data without filters: dataframe.copy() turned into a
\* list of records, which carry no index labels
api_get_fha_data(df) == [held |-> TRUE, alias |-> FALSE, df |-> ResetIndex(df)]

get_dataframe(h, df) ==
    IF h \in CoreHosts THEN core_get_dataframe(df) ELSE api_get_fha_data(df)

\* the operation bound a new DataFrame object to self.dataframe:
\* load_dataframe in its first statement, add_fha_entries and
\* update_fha_entries_from_wizard after their early return (drop and
\* reset_index in delete_rows work inplace, cell writes go through .loc
\* or .iloc of the object itself)
Rebound(op, arg, err) ==
    \/ op \in {"load_dataframe", "import_excel", "add_entry"}
    \/ /\ op \in {"add_fha_entries", "update_fha_entries_from_wizard"}
       /\ err = "ok"
       /\ arg # <<>>

\* the consumer's table after an operation with outcome r: an aliased
\* table is the register's object, so it shows every inplace change, and
\* stops being the register once the register is rebound
SnapshotAfter(snap, op, arg, r) ==
    IF ~snap.held \/ ~snap.alias THEN snap
    ELSE IF Rebound(op, arg, r.err) THEN [snap EXCEPT !.alias = FALSE]
    ELSE [snap EXCEPT !.df = r.df]

(* ------------------------- pandas aggregation -------------------------- *)
\* Python's order (code points) of the strings that occur as grouping
\* keys: the empty text, ASCII text, then the five labels by their first
\* Chinese character (yan 4E25, wei 5371, wu 65E0, zai 707E, qing 8F7B)
KeyOrder ==
    << "", "Hazardous", "cat", "haz", "nav", "pwr",
       MAJOR, HAZARDOUS, NO_SAFETY_EFFECT, CATASTROPHIC, MINOR >>

\* sorted(keys)
SortedKeys(keys) ==
    LET Member(k) == k \in keys IN SelectSeq(KeyOrder, Member)

RECURSIVE SumSeq(_)
SumSeq(s) == IF s = <<>> THEN 0 ELSE Head(s) + SumSeq(Tail(s))

\* df[(df[a] != '') & (df[b] != '')]: NaN differs from ''
BothNotBlank(df, a, b) ==
    LET Keep(r) == r.cells[a] # "" /\ r.cells[b] # ""
    IN  [columns |-> df.columns, rows |-> SelectSeq(df.rows, Keep)]

\* len(df[df[col] != ''])
CountNotBlank(df, col) ==
    Cardinality({i \in DOMAIN df.rows : df.rows[i].cells[col] # ""})

\* df[col].value_counts().get(label, 0) for a text label
ValueCount(df, col, label) ==
    Cardinality({i \in DOMAIN df.rows : df.rows[i].cells[col] = label})

\* pd.crosstab(df[a], df[b]): rows with NaN in either key are dropped,
\* both axes hold the distinct keys in sorted order, a pair that does not
\* occur counts 0.  groupby([a, b]).size() is its list of non-zero cells
crosstab(df, a, b) ==
    LET Known(r) == r.cells[a] # NaN /\ r.cells[b] # NaN
        rows == SelectSeq(df.rows, Known)
        fs == {rows[i].cells[a] : i \in DOMAIN rows}
        cs == {rows[i].cells[b] : i \in DOMAIN rows}
    IN  [index |-> SortedKeys(fs),
         columns |-> SortedKeys(cs),
         data |-> [f \in fs |-> [c \in cs |->
                     Cardinality({i \in DOMAIN rows :
                                    /\ rows[i].cells[a] = f
                                    /\ rows[i].cells[b] = c})]]]

\* DataFrame.empty for a tabulation
TableEmpty(tab) == Len(tab.index) = 0 \/ Len(tab.columns) = 0

\* the columns as crosstab sorted them, without the canonical order
ordered_cols_as_sorted(tab) ==
    LET Present(col) == col # "" IN SelectSeq(tab.columns, Present)

\* [col for col in ARP4761_CATEGORIES if col in cross_tab.columns and
\*  col != ""]
ordered_cols(tab) ==
    LET Present(col) == col \in Range(tab.columns) /\ col # ""
    IN  SelectSeq(ARP4761_CATEGORIES, Present)

\* cross_tab.reindex(columns=cols), a column the table lacks holding
\* `fill` (NaN, or 0 where .fillna(0) follows)
ReindexColumns(tab, cols, fill) ==
    [index |-> tab.index,
     columns |-> cols,
     data |-> [f \in Range(tab.index) |-> [c \in Range(cols) |->
                 IF c \in Range(tab.columns) THEN tab.data[f][c]
                 ELSE fill]]]

\* col.split(' ')[0]; the other strings of the model hold no blank
FirstWord(col) ==
    CASE col = CATASTROPHIC -> "zainande"
      [] col = HAZARDOUS -> "weixiande"
      [] col = MAJOR -> "yanzhongde"
      [] col = MINOR -> "qingweide"
      [] col = NO_SAFETY_EFFECT -> "wuanquanyingxiang"
      [] OTHER -> col

\* cross_tab[cols].sum(axis=1) at row f
RowSum(tab, f, cols) == SumSeq([j \in DOMAIN cols |-> tab.data[f][cols[j]]])

\* the last label that carries the largest sum
idxmax_last(tab, cols) ==
    LET n == Len(tab.index)
        V(i) == RowSum(tab, tab.index[i], cols)
        best == CHOOSE i \in 1 .. n :
                    /\ \A j \in 1 .. n : V(j) <= V(i)
                    /\ \A j \in i + 1 .. n : V(j) < V(i)
    IN  tab.index[best]

\* Series.idxmax() of cross_tab[cols].sum(axis=1): the first label, in
\* index order, that carries the largest sum
idxmax(tab, cols) ==
    LET n == Len(tab.index)
        V(i) == RowSum(tab, tab.index[i], cols)
        best == CHOOSE i \in 1 .. n :
                    /\ \A j \in 1 .. n : V(j) <= V(i)
                    /\ \A j \in 1 .. i - 1 : V(j) < V(i)
    IN  tab.index[best]

(* --------------------------- dashboard queries ------------------------- *)
\* outcome of a query: the register afterwards and the data it answers
Reply(df, out) == [df |-> df, out |-> out]

\* {} of Python
EmptyDict == [k \in {} |-> ""]

\* the three KPI numbers
Kpis(df) ==
    [total_items |-> CountNotBlank(df, "FailureMode"),
     catastrophic_count |-> ValueCount(df, "Severity", CATASTROPHIC),
     hazardous_count |-> ValueCount(df, "Severity", HAZARDOUS)]

\* the rows with a severity, whatever their function
Analyzed_any_function(df) == BothNotBlank(df, "Severity", "Severity")

\* df_analyzed
Analyzed(df) == BothNotBlank(df, "Func1", "Severity")

\* the summary text, given by the values it is formatted from: the text
\* for a register without analysed rows, and the text of a report
NoneAnalyzedText == [kind |-> "none", high_risk_items |-> 0, focus |-> <<>>]

SummaryText(df_analyzed, cross_tab) ==
    LET HighRisk(col) == col \in Range(cross_tab.columns)
        high_risk_cols == SelectSeq(<<CATASTROPHIC, HAZARDOUS>>, HighRisk)
        top_func == idxmax(cross_tab, high_risk_cols)
        Count(col) == IF col \in Range(cross_tab.columns)
                      THEN cross_tab.data[top_func][col] ELSE 0
    IN  [kind |-> "report",
         high_risk_items |->
             Cardinality({i \in DOMAIN df_analyzed.rows :
                            df_analyzed.rows[i].cells["Severity"]
                                \in {CATASTROPHIC, HAZARDOUS}}),
         focus |-> IF ~TableEmpty(cross_tab) /\ high_risk_cols # <<>>
                   THEN << [top_func |-> top_func,
                            top_func_cat_count |-> Count(CATASTROPHIC),
                            top_func_haz_count |-> Count(HAZARDOUS)] >>
                   ELSE <<>>]

\* df_filtered of the sunburst data
Filtered(df) ==
    LET Keep(r) == /\ r.cells["Func1"] # ""
                   /\ r.cells["Severity"] # ""
                   /\ r.cells["Severity"] # NO_SAFETY_EFFECT
    IN  [columns |-> df.columns, rows |-> SelectSeq(df.rows, Keep)]

\* the categories of function f in `data`, the grouped sizes: the
\* non-zero cells of the row, in sorted order
GroupOf(data, f) ==
    LET Occurs(c) == data.data[f][c] > 0 IN SelectSeq(data.columns, Occurs)

\* fha_api.get_dashboard_data (GET /fha/dashboard)
api_get_dashboard_data(df) ==
    IF IsEmpty(df) THEN Reply(df, [message |-> "no data to analyse"])
    ELSE
    LET df_analyzed == Analyzed(df)
        tab == crosstab(df_analyzed, "Func1", "Severity")
        cross_tab == ReindexColumns(tab, ordered_cols(tab), 0)
        cross_tab_data ==
            [index |-> cross_tab.index,
             columns |-> [j \in DOMAIN cross_tab.columns |->
                            FirstWord(cross_tab.columns[j])],
             data |-> [i \in DOMAIN cross_tab.index |->
                         [j \in DOMAIN cross_tab.columns |->
                            cross_tab.data[cross_tab.index[i]]
                                          [cross_tab.columns[j]]]]]
        df_filtered == Filtered(df)
        data == crosstab(df_filtered, "Func1", "Severity")
        sunburst_data ==
            [name |-> "root",
             children |->
                 [i \in DOMAIN data.index |->
                    LET func_name == data.index[i]
                        func_group == GroupOf(data, func_name)
                    IN  [name |-> func_name,
                         children |->
                             [j \in DOMAIN func_group |->
                                [name |-> func_group[j],
                                 value |-> data.data[func_name]
                                                    [func_group[j]]]]]]]
    IN  Reply(df,
              [kpis |-> Kpis(df),
               cross_analysis |->
                   IF IsEmpty(df_analyzed)
                   THEN [matrix |-> EmptyDict,
                         summary_text |-> NoneAnalyzedText]
                   ELSE [matrix |-> cross_tab_data,
                         summary_text |->
                             SummaryText(df_analyzed, cross_tab)],
               sunburst_data |->
                   IF IsEmpty(df_filtered) THEN EmptyDict
                   ELSE sunburst_data])

\* fha_api0.get_dashboard_kpis
api0_get_dashboard_kpis(df) == Reply(df, Kpis(df))

\* the categories get_sunburst_data looks for in each function's group
SUNBURST_CATEGORIES == << CATASTROPHIC, HAZARDOUS, MAJOR, MINOR >>

\* the functions of the grouped sizes with their totals, and for each the
\* listed categories its group holds
FuncSizes(data) ==
    [i \in DOMAIN data.index |->
        LET func_name == data.index[i]
            InGroup(cat) == cat \in Range(GroupOf(data, func_name))
            cats == SelectSeq(SUNBURST_CATEGORIES, InGroup)
        IN  [function |-> func_name,
             total |-> RowSum(data, func_name, data.columns),
             categories |->
                 [j \in DOMAIN cats |->
                    [category |-> cats[j],
                     count |-> data.data[func_name][cats[j]]]]]]

\* fha_api0.get_sunburst_data
api0_get_sunburst_data(df) ==
    LET df_filtered == Filtered(df)
    IN  IF IsEmpty(df_filtered) THEN Reply(df, [data |-> <<>>])
        ELSE Reply(df, [data |->
                 FuncSizes(crosstab(df_filtered, "Func1", "Severity"))])

\* the answer of get_cross_analysis_data: each matrix row is a dict with
\* the function and one key per column, kept here in insertion order (no
\* .fillna(0) follows the reindex; int() of a NaN cell would raise, but
\* ordered_cols only lists columns the table has)
cross_analysis_data(df) ==
    LET df_analyzed == Analyzed(df)
        tab == crosstab(df_analyzed, "Func1", "Severity")
        cross_tab == ReindexColumns(tab, ordered_cols(tab), NaN)
    IN  IF IsEmpty(df_analyzed)
        THEN [matrix |-> <<>>, summary |-> NoneAnalyzedText]
        ELSE [matrix |->
                 [i \in DOMAIN cross_tab.index |->
                    [function |-> cross_tab.index[i],
                     cells |->
                         [j \in DOMAIN cross_tab.columns |->
                            << FirstWord(cross_tab.columns[j]),
                               cross_tab.data[cross_tab.index[i]]
                                             [cross_tab.columns[j]] >>]]],
              summary |-> SummaryText(df_analyzed, cross_tab)]

\* get_cross_analysis_data filtering the register's own table in place
api0_get_cross_analysis_data_inplace(df) ==
    Reply(Analyzed(df), cross_analysis_data(df))

\* fha_api0.get_cross_analysis_data: the filter makes a new table
\* (df[...].copy()), the register's table is only read
api0_get_cross_analysis_data(df) == Reply(df, cross_analysis_data(df))

\* SummaryDashboardWidget._update_kpis: the three labels show the numbers
gui_update_kpis(df) ==
    [total_label |-> ToString(Kpis(df).total_items),
     cat_label |-> ToString(Kpis(df).catastrophic_count),
     haz_label |-> ToString(Kpis(df).hazardous_count)]

RECURSIVE Flatten(_)
Flatten(ss) == IF ss = <<>> THEN <<>> ELSE Head(ss) \o Flatten(Tail(ss))

\* SummaryDashboardWidget._update_sunburst_chart: the inner pie has one
\* wedge per function, the outer pie one wedge per (function, category of
\* color_map) present
gui_update_sunburst_chart(df) ==
    LET df_filtered == Filtered(df)
        sizes == FuncSizes(crosstab(df_filtered, "Func1", "Severity"))
    IN  IF IsEmpty(df_filtered) THEN [inner |-> <<>>, outer |-> <<>>]
        ELSE [inner |-> [i \in DOMAIN sizes |->
                           [function |-> sizes[i].function,
                            total |-> sizes[i].total]],
              outer |-> Flatten([i \in DOMAIN sizes |->
                                   sizes[i].categories])]

\* SummaryDashboardWidget._update_cross_analysis: the table widget with
\* its headers, every item showing str(value)
gui_update_cross_analysis(df) ==
    LET df_analyzed == Analyzed(df)
        tab == crosstab(df_analyzed, "Func1", "Severity")
        cross_tab == ReindexColumns(tab, ordered_cols(tab), NaN)
    IN  IF IsEmpty(df_analyzed)
        THEN [summary_text |-> NoneAnalyzedText,
              vertical |-> <<>>, horizontal |-> <<>>, items |-> <<>>]
        ELSE [summary_text |-> SummaryText(df_analyzed, cross_tab),
              vertical |-> cross_tab.index,
              horizontal |-> [j \in DOMAIN cross_tab.columns |->
                                FirstWord(cross_tab.columns[j])],
              items |-> [i \in DOMAIN cross_tab.index |->
                           [j \in DOMAIN cross_tab.columns |->
                              ToString(cross_tab.data
                                  [cross_tab.index[i]]
                                  [cross_tab.columns[j]])]]]

\* SummaryDashboardWidget._clear_dashboard
gui_clear_dashboard ==
    [kpis |-> [total_label |-> "0", cat_label |-> "0", haz_label |-> "0"],
     chart |-> [inner |-> <<>>, outer |-> <<>>],
     cross |-> [summary_text |-> [kind |-> "cleared", high_risk_items |-> 0,
                                  focus |-> <<>>],
                vertical |-> <<>>, horizontal |-> <<>>, items |-> <<>>]]

\* SummaryDashboardWidget.refresh_dashboard
gui_refresh_dashboard(df) ==
    IF IsEmpty(df) THEN Reply(df, gui_clear_dashboard)
    ELSE Reply(df, [kpis |-> gui_update_kpis(df),
                    chart |-> gui_update_sunburst_chart(df),
                    cross |-> gui_update_cross_analysis(df)])

(* -------------------------- ranked risk list ---------------------------- *)
\* the severity scale of the ranked risk list: no-safety-effect = 0 up to
\* catastrophic = 4; a text outside the five labels carries no rank of the
\* scale and sorts behind every label
SeverityRank(label) ==
    CASE label = CATASTROPHIC -> 4
      [] label = HAZARDOUS -> 3
      [] label = MAJOR -> 2
      [] label = MINOR -> 1
      [] label = NO_SAFETY_EFFECT -> 0
      [] OTHER -> -1

\* the rank of the row at position p (1-based)
RankAt(df, p) == SeverityRank(df.rows[p].cells["Severity"])

\* insertion that places p in front of the entries it ties with
RECURSIVE InsertByRank_before_ties(_, _, _)
InsertByRank_before_ties(df, s, p) ==
    IF s = <<>> THEN <<p>>
    ELSE IF RankAt(df, p) >= RankAt(df, Head(s)) THEN <<p>> \o s
    ELSE <<Head(s)>> \o InsertByRank_before_ties(df, Tail(s), p)

\* one step of the stable sort: p goes behind every entry of the same or a
\* higher rank
RECURSIVE InsertByRank(_, _, _)
InsertByRank(df, s, p) ==
    IF s = <<>> THEN <<p>>
    ELSE IF RankAt(df, p) > RankAt(df, Head(s)) THEN <<p>> \o s
    ELSE <<Head(s)>> \o InsertByRank(df, Tail(s), p)

\* stable sort of positions by descending rank
RECURSIVE SortByRank(_, _)
SortByRank(df, ps) ==
    IF ps = <<>> THEN <<>>
    ELSE InsertByRank(df, SortByRank(df, SubSeq(ps, 1, Len(ps) - 1)),
                      ps[Len(ps)])

\* the positions of the n highest ranked entries, taken from the entries
\* with a severity category in register order
RankedPositions(df, n) ==
    LET Has(p) == /\ df.rows[p].cells["Severity"] # ""
                  /\ df.rows[p].cells["Severity"] # NaN
        WithSeverity == SelectSeq([p \in 1 .. Len(df.rows) |-> p], Has)
        sorted == SortByRank(df, WithSeverity)
    IN  SubSeq(sorted, 1, Min(n, Len(sorted)))

\* the ranked entries, each with the fields shown for it
topRisks(df, n) ==
    LET RISK_FIELDS == {"ID", "Func1", "FailureMode", "Severity"}
        ps == RankedPositions(df, n)
        Projected(p) ==
            [f \in RISK_FIELDS |-> DictGet(df.rows[p].cells, f, NaN)]
    IN  [i \in 1 .. Len(ps) |-> Projected(ps[i])]

(* --------------------------- the project store ------------------------- *)
\* FHA_Model.new_project: a new blank table replaces the register
core_new_project == new_blank_dataframe

\* create_project with one model instance for all projects
create_project_shared_model(db, ms, project_id, name) ==
    [db |-> (project_id :> [name |-> name, model |-> 1]) @@ db,
     ms |-> IF ms = <<>> THEN Append(ms, new_blank_dataframe) ELSE ms]

\* create_project: projects_db[project_id] = {name, model, created_at}
\* with model = FHA_Model(): the instance gets its own blank table;
\* instances are numbered in the order of their creation
create_project(db, ms, project_id, name) ==
    [db |-> (project_id :> [name |-> name, model |-> Len(ms) + 1]) @@ db,
     ms |-> Append(ms, new_blank_dataframe)]

\* get_project_model: the dependency of every handler of a project
get_project_model(db, project_id) ==
    IF project_id \notin DOMAIN db
    THEN [err |-> "HTTP404", model |-> 0]
    ELSE [err |-> "ok", model |-> db[project_id].model]

\* delete_project: del projects_db[project_id]
delete_project(db, project_id) ==
    IF project_id \notin DOMAIN db
    THEN [db |-> db, err |-> "HTTP404"]
    ELSE [db |-> [q \in DOMAIN db \ {project_id} |-> db[q]], err |-> "ok"]

\* POST /projects/{project_id}/new
api0_new_project(df) == Ret(core_new_project, "ok")

\* DELETE /projects/{project_id}/entries/{entry_indices}: only ValueError
\* is caught; a KeyError of drop reaches the general exception handler
api0_delete_entries(df, indices) ==
    LET r == core_delete_rows(df, indices)
    IN  Ret(r.df, IF r.err = "ok" THEN "ok" ELSE "HTTP500")

\* outcome of a handler that also reports a number of entries
Reported(df, err, total) == [df |-> df, err |-> err, total |-> total]

\* POST /projects/{project_id}/functional-architect; the message carries
\* len(skeleton)
api0_create_from_functional_architect(df, skeleton) ==
    LET r == core_add_fha_entries(core_new_project, skeleton)
    IN  Reported(r.df, r.err, Len(skeleton))

\* fha_api.FHAEntry(**body).dict(): the declared fields, "" by default;
\* other keys of the body are ignored
SkeletonDict(body) ==
    LET SKELETON_FIELDS == {"Func1", "Func2", "Func3", "FuncType", "Phase"}
    IN  [f \in SKELETON_FIELDS |-> DictGet(body, f, "")]

\* fha_api.new_project that appends to the current register
api_new_project_keeps_rows(df, entries) ==
    LET r == api_add_fha_entries(
                 df, [i \in DOMAIN entries |-> SkeletonDict(entries[i])])
    IN  Reported(r.df, r.err, Len(r.df.rows))

\* fha_api.new_project: POST /fha/project/new
api_new_project(df, entries) ==
    LET r == api_add_fha_entries(
                 new_blank_dataframe,
                 [i \in DOMAIN entries |-> SkeletonDict(entries[i])])
    IN  Reported(r.df, r.err, Len(r.df.rows))

\* FHA_MainWindow.new_project: nothing happens unless the user confirms
\* and accepts the dialog; the status bar shows len(skeleton)
gui_new_project(df, accepted, skeleton) ==
    IF ~accepted THEN Reported(df, "cancelled", 0)
    ELSE LET r == core_add_fha_entries(core_new_project, skeleton)
         IN  Reported(r.df, r.err, Len(skeleton))

\* GET /projects/{project_id}/failure-modes/{function_type}: the handler
\* has no get_project_model dependency and never looks at projects_db
api0_get_failure_modes(db, project_id) == [db |-> db, err |-> "ok"]

(* ------------------- requests in the worker threads -------------------- *)
\* fha_api declares its handlers with def, so each request runs in a
\* worker thread against the module-level fha_model_instance; no lock is
\* taken anywhere.  A request in flight: its handler and arguments, the
\* place it has reached, and its locals
Thread(op, entries, indices) ==
    [op |-> op, entries |-> entries, indices |-> indices, pc |-> "start",
     tmp |-> new_blank_dataframe, n |-> 0, i |-> 0, total |-> 0]

\* one step of a request th on the register df: a read of self.dataframe
\* with the computation that follows it, or one write
ThreadStep(df, th) ==
    CASE th.pc = "start" /\ th.op = "new_project" ->
            \* fha_model_instance.dataframe = pd.DataFrame(columns=...)
            [df |-> new_blank_dataframe, th |-> [th EXCEPT !.pc = "add"]]
      [] th.pc = "add" ->
            \* add_fha_entries: new_df and pd.concat([self.dataframe, new_df])
            IF th.entries = <<>>
            THEN [df |-> df, th |-> [th EXCEPT !.pc = "return"]]
            ELSE [df |-> df,
                  th |-> [th EXCEPT
                            !.tmp = Concat2(df, Fillna(FrameOfDicts(
                                        [k \in DOMAIN th.entries |->
                                            SkeletonDict(th.entries[k])],
                                        NaN), "")),
                            !.pc = "store"]]
      [] th.pc = "start" /\ th.op = "delete_rows" ->
            \* delete_rows: rows_to_keep from self.dataframe.iterrows()
            IF th.indices = <<>> \/ IsEmpty(df)
            THEN [df |-> df, th |-> [th EXCEPT !.pc = "return"]]
            ELSE LET rows_to_keep ==
                         SelectRows(df.rows, Labels(df) \ Range(th.indices))
                 IN  [df |-> df,
                      th |-> [th EXCEPT
                                !.tmp = IF rows_to_keep = <<>>
                                        THEN new_blank_dataframe
                                        ELSE ResetIndex(
                                                 [columns |-> df.columns,
                                                  rows |-> rows_to_keep]),
                                !.pc = "store"]]
      [] th.pc = "store" ->
            \* self.dataframe = ...
            [df |-> th.tmp, th |-> [th EXCEPT !.pc = "renumber"]]
      [] th.pc = "renumber" ->
            \* re_number_ids: the empty check and range(len(self.dataframe))
            IF IsEmpty(df)
            THEN [df |-> df, th |-> [th EXCEPT !.pc = "return"]]
            ELSE [df |-> df,
                  th |-> [th EXCEPT !.n = Len(df.rows), !.i = 0,
                                    !.pc = "loop"]]
      [] th.pc = "loop" ->
            \* self.dataframe.loc[i, ID] = f"FHA-{i + 1:03d}"
            IF th.i >= th.n
            THEN [df |-> df, th |-> [th EXCEPT !.pc = "return"]]
            ELSE [df |-> LocSet(df, th.i, "ID", FormatId(th.i)),
                  th |-> [th EXCEPT !.i = th.i + 1]]
      [] th.pc = "return" ->
            \* the response carries len(fha_model_instance.dataframe)
            [df |-> df,
             th |-> [th EXCEPT !.total = Len(df.rows), !.pc = "done"]]

(* ------------------------------ dispatch ------------------------------- *)
load_dataframe(h, df_in) ==
    IF h \in CoreHosts THEN core_load_dataframe(df_in)
    ELSE api_load_dataframe(df_in)

add_fha_entries(h, df, entries_list) ==
    IF h \in CoreHosts THEN core_add_fha_entries(df, entries_list)
    ELSE api_add_fha_entries(df, entries_list)

delete_rows(h, df, row_indices) ==
    IF h \in CoreHosts THEN core_delete_rows(df, row_indices)
    ELSE api_delete_rows(df, row_indices)

update_fha_entries_from_wizard(h, df, source_index, wizard_results) ==
    IF h \in CoreHosts
    THEN core_update_fha_entries_from_wizard(df, source_index, wizard_results)
    ELSE api_update_fha_entries_from_wizard(df, source_index, wizard_results)

re_number_ids(h, df) ==
    IF h \in CoreHosts THEN core_re_number_ids(df) ELSE api_re_number_ids(df)

new_project(h, df, accepted, entries) ==
    CASE h = "gui" -> gui_new_project(df, accepted, entries)
      [] h = "api0" -> api0_create_from_functional_architect(df, entries)
      [] h = "api" -> api_new_project(df, entries)

(* ------------------------------- inputs -------------------------------- *)
\* entries given to add_fha_entries: dicts from field name to text
E_nav == ("Func1" :> "nav")
E_pwr == ("Func1" :> "pwr") @@ ("ID" :> "X-9") @@ ("Extra" :> "q")
EntryLists ==
    LET E_blank == <<>>
    IN  { <<>>, <<E_blank>>, <<E_nav>>, <<E_nav, E_pwr>> }

\* tables read from a spreadsheet (default 0..n-1 index)
F_two == [columns |-> <<"Func1", "ID", "Extra">>,
          rows |-> << [label |-> 0,
                       cells |-> ("Func1" :> "nav") @@ ("ID" :> "X-9")
                                 @@ ("Extra" :> "q")],
                      [label |-> 1,
                       cells |-> ("Func1" :> NaN) @@ ("ID" :> "FHA-001")
                                 @@ ("Extra" :> "")] >>]
Frames ==
    LET F_none == [columns |-> <<"Func1">>, rows |-> <<>>]
    IN  {F_none, F_two}

\* wizard results: the six fields a result supplies
R_loss == ("FailureMode" :> "loss") @@ ("ImpactVehicle" :> "v1")
          @@ ("ImpactAirGround" :> "g1") @@ ("ImpactGroundCtrl" :> "c1")
          @@ ("Severity" :> "cat") @@ ("Rationale" :> "r1")
ResultLists ==
    LET R_drift ==
            ("FailureMode" :> "drift") @@ ("ImpactVehicle" :> "v2")
            @@ ("ImpactAirGround" :> "") @@ ("ImpactGroundCtrl" :> "c2")
            @@ ("Severity" :> "haz") @@ ("Rationale" :> "")
    IN  { <<>>, <<R_loss>>, <<R_loss, R_drift>> }

\* row numbers a caller may send
Positions == -2 .. MaxRows

\* lists of row numbers given to delete_rows
InRange == 0 .. MaxRows - 1
DeleteLists ==
    { <<>>, <<-1>>, <<OutPos>> }
    \cup { <<p>> : p \in InRange }
    \cup { <<p, q>> : p \in InRange, q \in InRange }
    \cup { <<p, p, OutPos>> : p \in InRange }

\* cells addressed by update_cell
CellColumns == {"ID", "Severity", "Nope"}

\* request bodies of update_entry: the supplied fields
UpdateBodies ==
    LET B_func == ("Func1" :> "nav")
        B_sev == ("Severity" :> "haz") @@ ("RationaleOrNote" :> None)
    IN  {B_func, B_sev}

\* columns edited in the table view (positions of ID and Severity)
EditColumns == {0, 10}

\* analysed entries given to add_fha_entries
AnalysedEntries ==
    LET P_nav_cat == ("Func1" :> "nav") @@ ("FailureMode" :> "loss")
                     @@ ("Severity" :> CATASTROPHIC)
        P_pwr_haz == ("Func1" :> "pwr") @@ ("FailureMode" :> "loss")
                     @@ ("Severity" :> HAZARDOUS)
        P_nav_haz == ("Func1" :> "nav") @@ ("Severity" :> HAZARDOUS)
        P_pwr_open == ("Func1" :> "pwr") @@ ("FailureMode" :> "drift")
        P_anon_cat == ("FailureMode" :> "loss") @@ ("Severity" :> CATASTROPHIC)
        P_nav_nse == ("Func1" :> "nav") @@ ("FailureMode" :> "loss")
                     @@ ("Severity" :> NO_SAFETY_EFFECT)
        P_pwr_word == ("Func1" :> "pwr") @@ ("FailureMode" :> "drift")
                      @@ ("Severity" :> "Hazardous")
    IN  { P_nav_cat, P_pwr_haz, P_nav_haz, P_pwr_open, P_anon_cat,
          P_nav_nse, P_pwr_word }

\* request bodies of add_entry, keyed as a client sends them (by alias)
EntryBodies ==
    LET A_note == ("Func1" :> "nav") @@ ("Severity" :> "Hazardous")
                  @@ ("Rationale" :> "r1")
        A_cat == ("Func1" :> "pwr") @@ ("FailureMode" :> "loss")
                 @@ ("Severity" :> CATASTROPHIC)
                 @@ ("ImpactAirGround" :> "g1")
    IN  {A_note, A_cat}

\* a sheet whose identifier column holds numbers
Sheets ==
    LET F_num == [columns |-> <<"ID", "Func1", "Severity">>,
                  rows |-> << [label |-> 0,
                               cells |-> ("ID" :> Num7) @@ ("Func1" :> "nav")
                                         @@ ("Severity" :> MAJOR)] >>]
    IN  {F_two, F_num}

\* row numbers sent with a severity edit
SeverityPositions == {-1, 0}
\* request body of update_entry that sets the severity
B_haz == ("Severity" :> HAZARDOUS) @@ ("RationaleOrNote" :> None)

(* ------------------------------- actions ------------------------------- *)
Last(op, pos, col, arg, result) ==
    [op |-> op, pos |-> pos, col |-> col, arg |-> arg, result |-> result]

\* the step of an operation whose outcome is r
Step(op, pos, col, arg, r) ==
    /\ ops < MaxOps
    /\ Len(r.df.rows) <= MaxRows
    /\ ops' = ops + 1
    /\ dataframe' = r.df
    /\ last' = Last(op, pos, col, arg, r.err)
    /\ snapshot' = SnapshotAfter(snapshot, op, arg, r)
    /\ UNCHANGED <<host, store, threads>>

Init ==
    /\ host \in Hosts
    /\ dataframe = new_blank_dataframe
    /\ last = Last("init", 0, "", <<>>, "ok")
    /\ ops = 0
    /\ snapshot = NoSnapshot
    /\ projects_db = <<>>
    /\ models = <<>>
    /\ uuids = {}
    /\ threads = <<>>

LoadDataframe ==
    /\ host \in Hosts
    /\ \E df_in \in Frames :
        Step("load_dataframe", 0, "", df_in, load_dataframe(host, df_in))

AddFhaEntries ==
    /\ host \in Hosts
    /\ \E entries_list \in EntryLists :
        Step("add_fha_entries", 0, "", entries_list,
             add_fha_entries(host, dataframe, entries_list))

DeleteRows ==
    /\ host \in Hosts
    /\ \E row_indices \in DeleteLists :
        Step("delete_rows", 0, "", row_indices,
             delete_rows(host, dataframe, row_indices))

UpdateFhaEntriesFromWizard ==
    /\ host \in Hosts
    /\ \E source_index \in Positions, wizard_results \in ResultLists :
        Step("update_fha_entries_from_wizard", source_index, "",
             wizard_results,
             update_fha_entries_from_wizard(host, dataframe, source_index,
                                            wizard_results))

UpdateCell ==
    /\ host = "api"
    /\ \E row_index \in Positions, column_name \in CellColumns :
          Step("update_cell", row_index, column_name, "haz",
               api_update_cell_handler(dataframe, row_index, column_name,
                                       "haz"))

UpdateEntry ==
    /\ host = "api0"
    /\ \E entry_index \in Positions, body \in UpdateBodies :
          Step("update_entry", entry_index, "", body,
               api0_update_entry(dataframe, entry_index, body))

RunAnalysisWizard ==
    /\ host = "api0"
    /\ \E source_index \in Positions, results \in ResultLists :
          Step("run_analysis_wizard", source_index, "", results,
               api0_run_analysis_wizard(dataframe, source_index, results))

SetData ==
    /\ host = "gui"
    /\ \E row \in 0 .. Len(dataframe.rows) - 1, column \in EditColumns :
          Step("setData", row, TABLE_COLUMNS[column + 1], "haz",
               gui_setData(dataframe, row, column, "haz"))

Next ==
    \/ LoadDataframe
    \/ AddFhaEntries
    \/ DeleteRows
    \/ UpdateFhaEntriesFromWizard
    \/ UpdateCell
    \/ UpdateEntry
    \/ RunAnalysisWizard
    \/ SetData

Spec == Init /\ [][Next]_vars

(* ------------------------ snapshots and consumers ---------------------- *)
\* a consumer obtains the table (the dashboard, the table view, a client
\* of GET /fha/data)
GetDataframe ==
    /\ host \in Hosts
    /\ snapshot' = get_dataframe(host, dataframe)
    /\ last' = Last("get_dataframe", 0, "", <<>>, "ok")
    /\ UNCHANGED <<host, dataframe, ops, store, threads>>

\* the consumer writes the severity cell of the first row of its table,
\* as PandasModel.setData does with the table it was given; an aliased
\* table is the register
WriteSnapshot ==
    /\ host \in Hosts
    /\ snapshot.held
    /\ Len(snapshot.df.rows) >= 1
    /\ ops < MaxOps
    /\ ops' = ops + 1
    /\ snapshot' = [snapshot EXCEPT !.df = IlocSet(@, 0, 10, "haz")]
    /\ dataframe' = IF snapshot.alias THEN snapshot'.df ELSE dataframe
    /\ last' = Last("write_snapshot", 0, "Severity", "haz", "ok")
    /\ UNCHANGED <<host, store, threads>>

UpdateCellSeverity ==
    /\ host = "api"
    /\ \E row_index \in SeverityPositions :
          Step("update_cell", row_index, "Severity", HAZARDOUS,
               api_update_cell_handler(dataframe, row_index, "Severity",
                                       HAZARDOUS))

UpdateEntrySeverity ==
    /\ host = "api0"
    /\ \E entry_index \in SeverityPositions :
          Step("update_entry", entry_index, "", B_haz,
               api0_update_entry(dataframe, entry_index, B_haz))

\* the severity column is edited through a combo box of ARP4761_CATEGORIES
SetDataSeverity ==
    /\ host = "gui"
    /\ Len(dataframe.rows) >= 1
    /\ Step("setData", 0, "Severity", HAZARDOUS,
            gui_setData(dataframe, 0, 10, HAZARDOUS))

SnapshotNext ==
    \/ AddFhaEntries
    \/ DeleteRows
    \/ UpdateCellSeverity
    \/ UpdateEntrySeverity
    \/ SetDataSeverity
    \/ GetDataframe
    \/ WriteSnapshot

SnapshotSpec == Init /\ [][SnapshotNext]_vars

(* --------------------------- the dashboard ----------------------------- *)
AddAnalysedEntries ==
    /\ host \in Hosts
    /\ \E e \in AnalysedEntries :
        Step("add_fha_entries", 0, "", <<e>>,
             add_fha_entries(host, dataframe, <<e>>))

AddEntry ==
    /\ host = "api0"
    /\ \E body \in EntryBodies :
        Step("add_entry", 0, "", body, api0_add_entry(dataframe, body))

ImportExcel ==
    /\ host = "api0"
    /\ \E df_in \in Sheets :
        Step("import_excel", 0, "", df_in,
             api0_import_excel(dataframe, df_in))

\* the step of a query whose outcome is r
Query(op, r) ==
    /\ dataframe' = r.df
    /\ last' = Last(op, 0, "", <<>>, r.out)
    /\ UNCHANGED <<host, ops, snapshot, store, threads>>

GetDashboardData ==
    /\ host = "api"
    /\ Query("get_dashboard_data", api_get_dashboard_data(dataframe))

GetDashboardKpis ==
    /\ host = "api0"
    /\ Query("get_dashboard_kpis", api0_get_dashboard_kpis(dataframe))

GetSunburstData ==
    /\ host = "api0"
    /\ Query("get_sunburst_data", api0_get_sunburst_data(dataframe))

GetCrossAnalysisData ==
    /\ host = "api0"
    /\ Query("get_cross_analysis_data",
             api0_get_cross_analysis_data(dataframe))

RefreshDashboard ==
    /\ host = "gui"
    /\ Query("refresh_dashboard", gui_refresh_dashboard(dataframe))

\* the ranked risk list is asked for with a limit n
TopRisks ==
    /\ host \in Hosts
    /\ \E n \in {0, 1, 2} :
        last' = Last("top_risks", n, "", <<>>, topRisks(dataframe, n))
    /\ UNCHANGED <<host, dataframe, ops, snapshot, store, threads>>

QueryOps ==
    { "get_dashboard_data", "get_dashboard_kpis", "get_sunburst_data",
      "get_cross_analysis_data", "refresh_dashboard" }

ReportNext ==
    \/ AddAnalysedEntries
    \/ AddEntry
    \/ ImportExcel
    \/ UpdateCellSeverity
    \/ UpdateEntrySeverity
    \/ SetDataSeverity
    \/ GetDashboardData
    \/ GetDashboardKpis
    \/ GetSunburstData
    \/ GetCrossAnalysisData
    \/ RefreshDashboard
    \/ TopRisks

ReportSpec == Init /\ [][ReportNext]_vars

(* --------------------------- the project store ------------------------- *)
\* identifiers uuid4 may return
ProjectIds == {"u1", "u2", "u3"}

StoreLast(op, project_id, arg, result) ==
    [op |-> op, project_id |-> project_id, arg |-> arg, result |-> result]

StoreInit == Init /\ host = "api0"

\* POST /projects: uuid4 returns an identifier it has not returned before
CreateProject ==
    /\ host = "api0"
    /\ ops < MaxRequests
    /\ \E project_id \in ProjectIds \ uuids :
        LET r == create_project(projects_db, models, project_id, "uav")
        IN  /\ projects_db' = r.db
            /\ models' = r.ms
            /\ uuids' = uuids \cup {project_id}
            /\ last' = StoreLast("create_project", project_id, <<>>, "ok")
    /\ ops' = ops + 1
    /\ UNCHANGED <<host, dataframe, snapshot, threads>>

DeleteProject ==
    /\ host = "api0"
    /\ ops < MaxRequests
    /\ \E project_id \in ProjectIds :
        LET r == delete_project(projects_db, project_id)
        IN  /\ projects_db' = r.db
            /\ last' = StoreLast("delete_project", project_id, <<>>, r.err)
    /\ ops' = ops + 1
    /\ UNCHANGED <<host, dataframe, snapshot, models, uuids, threads>>

GetFailureModes ==
    /\ host = "api0"
    /\ ops < MaxRequests
    /\ \E project_id \in ProjectIds :
        LET r == api0_get_failure_modes(projects_db, project_id)
        IN  /\ projects_db' = r.db
            /\ last' = StoreLast("get_failure_modes", project_id, <<>>, r.err)
    /\ ops' = ops + 1
    /\ UNCHANGED <<host, dataframe, snapshot, models, uuids, threads>>

\* a request to a handler that depends on get_project_model: 404 before
\* the handler runs, or the handler h of the operation on the model of
\* the project
Serve(project_id, op, arg) ==
    LET m == get_project_model(projects_db, project_id)
        h(df) ==
            CASE op = "new_project" -> api0_new_project(df)
              [] op = "get_entries" -> Ret(df, "ok")
              [] op = "add_entry" -> api0_add_entry(df, arg)
              [] op = "update_entry" -> api0_update_entry(df, arg, B_haz)
              [] op = "delete_entries" -> api0_delete_entries(df, arg)
              [] op = "create_from_functional_architect" ->
                     api0_create_from_functional_architect(df, arg)
              [] op = "run_analysis_wizard" ->
                     api0_run_analysis_wizard(df, 0, arg)
              [] op = "import_excel" -> api0_import_excel(df, arg)
    IN  /\ ops < MaxRequests
        /\ ops' = ops + 1
        /\ IF m.err # "ok"
           THEN /\ last' = StoreLast(op, project_id, arg, m.err)
                /\ UNCHANGED models
           ELSE LET r == h(models[m.model])
                IN  /\ Len(r.df.rows) <= MaxRows
                    /\ models' = [models EXCEPT ![m.model] = r.df]
                    /\ last' = StoreLast(op, project_id, arg, r.err)
        /\ UNCHANGED <<host, dataframe, snapshot, projects_db, uuids,
                       threads>>

ProjectRequest ==
    /\ host = "api0"
    /\ \E project_id \in ProjectIds :
        \/ Serve(project_id, "new_project", <<>>)
        \/ Serve(project_id, "get_entries", <<>>)
        \/ \E body \in EntryBodies :
             Serve(project_id, "add_entry", body)
        \/ \E entry_index \in SeverityPositions :
             Serve(project_id, "update_entry", entry_index)
        \/ Serve(project_id, "delete_entries", <<0>>)
        \/ \E skeleton \in { <<>>, <<E_nav, E_pwr>> } :
             Serve(project_id, "create_from_functional_architect", skeleton)
        \/ Serve(project_id, "run_analysis_wizard", <<R_loss>>)
        \/ Serve(project_id, "import_excel", F_two)

StoreNext ==
    \/ CreateProject
    \/ DeleteProject
    \/ GetFailureModes
    \/ ProjectRequest

StoreSpec == StoreInit /\ [][StoreNext]_vars

(* ----------------------------- new project ----------------------------- *)
NewProject ==
    /\ host \in Hosts
    /\ \E entries \in EntryLists, accepted \in BOOLEAN :
        LET r == new_project(host, dataframe, accepted, entries)
        IN  /\ ops < MaxOps
            /\ Len(r.df.rows) <= MaxRows
            /\ ops' = ops + 1
            /\ dataframe' = r.df
            /\ last' = Last("new_project", 0, "", entries,
                            [err |-> r.err, total |-> r.total])
    /\ UNCHANGED <<host, snapshot, store, threads>>

ProjectNext ==
    \/ NewProject
    \/ LoadDataframe
    \/ UpdateCell
    \/ UpdateEntry
    \/ SetData

ProjectSpec == Init /\ [][ProjectNext]_vars

(* ------------------- requests in the worker threads -------------------- *)
ThreadIds == {"t1", "t2"}

ConcurrentInit == Init /\ host = "api"

\* a request arrives and is handed to a free worker thread
Accept ==
    /\ host = "api"
    /\ LET ConcurrentRequests ==
               { Thread("new_project", e, <<>>) :
                     e \in {<<E_nav>>, <<E_pwr, E_nav>>} }
               \cup { Thread("delete_rows", <<>>, <<0>>) }
       IN  \E t \in ThreadIds \ DOMAIN threads, th \in ConcurrentRequests :
               threads' = (t :> th) @@ threads
    /\ UNCHANGED <<host, dataframe, last, ops, snapshot, store>>

\* the scheduler lets one request in flight take its next step
RunThread ==
    /\ host = "api"
    /\ \E t \in DOMAIN threads :
        /\ threads[t].pc # "done"
        /\ LET r == ThreadStep(dataframe, threads[t])
           IN  /\ dataframe' = r.df
               /\ threads' = [threads EXCEPT ![t] = r.th]
    /\ UNCHANGED <<host, last, ops, snapshot, store>>

ConcurrentNext ==
    \/ Accept
    \/ RunThread

ConcurrentSpec == ConcurrentInit /\ [][ConcurrentNext]_vars

(* ====================== properties of the register ===================== *)
\* the identifiers the specification prescribes, written out
IdTable == << "FHA-001", "FHA-002", "FHA-003", "FHA-004", "FHA-005",
              "FHA-006", "FHA-007", "FHA-008" >>

\* every row carries the identifier of its position
IdsSequential(df) ==
    \A i \in DOMAIN df.rows : df.rows[i].cells["ID"] = IdTable[i]

\* a row without its identifier
NonId(cells) == [c \in DOMAIN cells \ {"ID"} |-> cells[c]]
RowsNonId(rows) == [i \in DOMAIN rows |-> NonId(rows[i].cells)]

\* the rows whose 0-based position, counted from pos, is not in del
RECURSIVE KeepPositions(_, _, _)
KeepPositions(rows, pos, del) ==
    IF rows = <<>> THEN <<>>
    ELSE (IF pos \in del THEN <<>> ELSE <<Head(rows)>>)
         \o KeepPositions(Tail(rows), pos + 1, del)

IsDistinct(s) == Cardinality(Range(s)) = Len(s)

StructuralOps ==
    {"add_fha_entries", "delete_rows", "update_fha_entries_from_wizard"}

\* the last operation was a structural mutation that ran to completion
AfterStructuralMutation ==
    /\ last.result = "ok"
    /\ \/ last.op = "load_dataframe"
       \/ last.op \in StructuralOps /\ last.arg # <<>>

(* C1: immediately after every structural mutation (load_dataframe,       *)
(* add_fha_entries, delete_rows, wizard expansion) the identifier of the   *)
(* entry at every position i is "FHA-" followed by i+1 padded to 3 digits. *)
C1_IdsAfterMutation ==
    AfterStructuralMutation => IdsSequential(dataframe)

(* C2: the register's column list is the fixed 12-column schema in every   *)
(* reachable state: no operation adds, removes or reorders a column.       *)
C2_ColumnsFixed == dataframe.columns = TABLE_COLUMNS

(* C3: delete_rows completes without error for any list of positions,      *)
(* removes exactly the entries whose position is in the list and in        *)
(* [0, len), ignores the rest, and is a no-op on an empty register.        *)
C3_DeleteTolerant ==
    \A row_indices \in DeleteLists :
        LET r == delete_rows(host, dataframe, row_indices)
        IN  /\ r.err = "ok"
            /\ RowsNonId(r.df.rows)
                 = RowsNonId(KeepPositions(dataframe.rows, 0,
                                           Range(row_indices)))
            /\ (dataframe.rows = <<>> => r.df = dataframe)

(* C4: for a list of distinct in-range positions delete_rows yields the    *)
(* subsequence of the prior entries whose positions are not listed, in     *)
(* their prior order with non-identifier fields unchanged, and the new     *)
(* length is the old length minus the number of listed positions.          *)
C4_DeleteSubsequence ==
    \A row_indices \in DeleteLists :
        (/\ IsDistinct(row_indices)
         /\ Range(row_indices) \subseteq 0 .. Len(dataframe.rows) - 1)
        => LET r == delete_rows(host, dataframe, row_indices)
           IN  /\ r.err = "ok"
               /\ Len(r.df.rows) = Len(dataframe.rows) - Len(row_indices)
               /\ RowsNonId(r.df.rows)
                    = RowsNonId(KeepPositions(dataframe.rows, 0,
                                              Range(row_indices)))

(* C5: update_cell fails when the position is >= the current length or     *)
(* the field is not a schema column, and a failed update_cell leaves the   *)
(* register exactly as it was before the call.                             *)
C5_UpdateCellFailsClean ==
    host = "api" =>
        \A row_index \in Positions, column_name \in CellColumns :
            LET r == api_update_cell_handler(dataframe, row_index,
                                             column_name, "haz")
            IN  /\ (row_index >= Len(dataframe.rows)
                    \/ column_name \notin Range(TABLE_COLUMNS))
                       => r.err # "ok"
                /\ r.err # "ok" => r.df = dataframe

\* the position a row number addresses (Python counts negatives from the end)
Addressed(row, n) == IF row >= 0 THEN row ELSE n + row

\* df2 is df1 with the cell (row, col) overwritten by value, nothing else
OverwrittenInPlace(df1, df2, row, col, value) ==
    /\ df2.columns = df1.columns
    /\ Len(df2.rows) = Len(df1.rows)
    /\ \A i \in DOMAIN df1.rows : \A c \in Range(df1.columns) :
          df2.rows[i].cells[c]
            = IF i = Addressed(row, Len(df1.rows)) + 1 /\ c = col
              THEN value ELSE df1.rows[i].cells[c]

\* df2 is df1 with at most the cells of row `row` changed, identifiers kept
OnlyRowChanged(df1, df2, row) ==
    /\ df2.columns = df1.columns
    /\ Len(df2.rows) = Len(df1.rows)
    /\ \A i \in DOMAIN df1.rows : \A c \in Range(df1.columns) :
          (i # Addressed(row, Len(df1.rows)) + 1 \/ c = "ID")
             => df2.rows[i].cells[c] = df1.rows[i].cells[c]

(* C6: whenever a cell update does not fail (any integer position, also    *)
(* negative, any schema field) it overwrites in place: same number of      *)
(* entries, exactly the addressed cell takes the new value, every other    *)
(* cell is unchanged and no identifier is renumbered.                      *)
C6_UpdateInPlace ==
    /\ host = "api" =>
         \A row_index \in Positions, column_name \in CellColumns :
             LET r == api_update_cell_handler(dataframe, row_index,
                                              column_name, "haz")
             IN  r.err = "ok" =>
                   OverwrittenInPlace(dataframe, r.df, row_index,
                                      column_name, "haz")
    /\ host = "api0" =>
         \A entry_index \in Positions, body \in UpdateBodies :
             LET r == api0_update_entry(dataframe, entry_index, body)
             IN  r.err = "ok" => OnlyRowChanged(dataframe, r.df, entry_index)
    /\ host = "gui" =>
         \A row \in 0 .. Len(dataframe.rows) - 1, column \in EditColumns :
             LET r == gui_setData(dataframe, row, column, "haz")
             IN  OverwrittenInPlace(dataframe, r.df, row,
                                    TABLE_COLUMNS[column + 1], "haz")

\* r is the outcome the specification prescribes for the expansion of the
\* row at source_index of df into Len(results) rows: length and the rows
\* before and after the source row
ExpandedAround(df, r, source_index, results) ==
    LET n == Len(df.rows)
        m == Len(results)
    IN  /\ r.err = "ok"
        /\ Len(r.df.rows) = n - 1 + m
        /\ RowsNonId(SubSeq(r.df.rows, 1, source_index))
             = RowsNonId(SubSeq(df.rows, 1, source_index))
        /\ RowsNonId(SubSeq(r.df.rows, source_index + m + 1, n - 1 + m))
             = RowsNonId(SubSeq(df.rows, source_index + 2, n))

(* C7: wizard expansion at a valid source position with N >= 1 results     *)
(* yields a register of length len - 1 + N whose entries before the source *)
(* position and from source position + N on are, apart from identifiers,   *)
(* the entries that were before and after the source row, in order.        *)
C7_WizardLengthAndFrame ==
    \A source_index \in 0 .. Len(dataframe.rows) - 1 :
      \A results \in ResultLists \ {<<>>} :
        /\ ExpandedAround(dataframe,
               update_fha_entries_from_wizard(host, dataframe, source_index,
                                              results),
               source_index, results)
        /\ host = "api0" =>
             ExpandedAround(dataframe,
                 api0_run_analysis_wizard(dataframe, source_index, results),
                 source_index, results)

(* C8: in a wizard expansion the k-th derived entry, at position           *)
(* source + k, carries the k-th result's value for every schema field the  *)
(* result supplies and the source row's value at call time for every other *)
(* non-identifier field; derived entries follow the order of the results.  *)
C8_DerivedEntries ==
    \A source_index \in 0 .. Len(dataframe.rows) - 1 :
      \A results \in ResultLists \ {<<>>} :
        LET r == update_fha_entries_from_wizard(host, dataframe,
                                                source_index, results)
        IN  r.err = "ok" =>
              /\ Len(r.df.rows) >= source_index + Len(results)
              /\ \A k \in DOMAIN results :
                   \A c \in Range(TABLE_COLUMNS) \ {"ID"} :
                     r.df.rows[source_index + k].cells[c]
                       = IF c \in DOMAIN results[k] THEN results[k][c]
                         ELSE dataframe.rows[source_index + 1].cells[c]

(* C9: update_fha_entries_from_wizard with an empty results list is a      *)
(* no-op for every source position, valid or not: the register with all    *)
(* its identifiers is unchanged and no error is raised.                    *)
C9_EmptyWizardNoop ==
    \A source_index \in Positions \cup {OutPos} :
        update_fha_entries_from_wizard(host, dataframe, source_index, <<>>)
          = Ret(dataframe, "ok")

\* an empty results list was just given for a position outside a
\* non-empty register
C9_Witness ==
    /\ last.op = "update_fha_entries_from_wizard"
    /\ last.arg = <<>>
    /\ last.result = "ok"
    /\ dataframe.rows # <<>>
    /\ last.pos >= Len(dataframe.rows)

(* C10: add_fha_entries([]) and delete_rows([]) leave the register         *)
(* identical to its prior state in order, contents and identifiers, with   *)
(* no renumbering (an overwritten identifier stays overwritten).           *)
C10_EmptyInputNoop ==
    /\ add_fha_entries(host, dataframe, <<>>) = Ret(dataframe, "ok")
    /\ delete_rows(host, dataframe, <<>>) = Ret(dataframe, "ok")

\* an empty list was just given to add_fha_entries or delete_rows while
\* an identifier overwritten by a cell update is still in place
C10_Witness ==
    /\ last.op \in {"add_fha_entries", "delete_rows"}
    /\ last.arg = <<>>
    /\ last.result = "ok"
    /\ \E i \in DOMAIN dataframe.rows : dataframe.rows[i].cells["ID"] = "haz"

(* =================== properties of append and replace ================== *)
\* r is the outcome of appending `entries` (dicts keyed by column name)
\* to df: it succeeded, the new rows follow the old ones in input order,
\* every schema field is the entry's value or empty text, the old rows
\* keep their order and non-identifier fields, identifiers are renumbered
AppendedAsGiven(df, r, entries) ==
    LET n == Len(df.rows)
    IN  /\ r.err = "ok"
        /\ Len(r.df.rows) = n + Len(entries)
        /\ \A k \in DOMAIN entries :
             \A c \in Range(TABLE_COLUMNS) \ {"ID"} :
               r.df.rows[n + k].cells[c] = DictGet(entries[k], c, "")
        /\ \A i \in 1 .. n :
             \A c \in Range(df.columns) \ {"ID"} :
               r.df.rows[i].cells[c] = df.rows[i].cells[c]
        /\ IdsSequential(r.df)

(* C11: appending a non-empty list adds exactly len(entries) entries at    *)
(* the end in input order, each schema field taken from the input entry    *)
(* when present and empty text otherwise, leaves the prior entries' order  *)
(* and non-identifier fields unchanged and renumbers; this holds for the   *)
(* register method and for the add_entry endpoint, and append([{}]) on an  *)
(* empty register gives one all-empty entry with identifier FHA-001.       *)
C11_Append ==
    /\ \A entries_list \in EntryLists \ {<<>>} :
         AppendedAsGiven(dataframe,
                         add_fha_entries(host, dataframe, entries_list),
                         entries_list)
    /\ host = "api0" =>
         \A body \in EntryBodies :
           AppendedAsGiven(dataframe, api0_add_entry(dataframe, body),
                           <<body>>)

\* r is the outcome of replacing the register by the sheet df_in: it
\* succeeded, there is one entry per sheet row in order with exactly the
\* schema fields, a field is the sheet's value or empty text, and the
\* identifiers are FHA-001..FHA-n whatever the sheet held
ReplacedBy(r, df_in) ==
    /\ r.err = "ok"
    /\ r.df.columns = TABLE_COLUMNS
    /\ Len(r.df.rows) = Len(df_in.rows)
    /\ \A i \in DOMAIN df_in.rows :
         \A c \in Range(TABLE_COLUMNS) \ {"ID"} :
           r.df.rows[i].cells[c]
             = IF c \in Range(df_in.columns) /\ df_in.rows[i].cells[c] # NaN
               THEN df_in.rows[i].cells[c] ELSE ""
    /\ IdsSequential(r.df)

(* C12: load_dataframe discards the prior state and leaves one entry per   *)
(* input row in input order with only the schema fields (unknown fields    *)
(* dropped, missing fields empty text) and identifiers FHA-001..FHA-n      *)
(* regardless of the identifiers in the input; it never fails, also when   *)
(* it is reached through the import endpoint.                              *)
C12_ReplaceAll ==
    /\ \A df_in \in Frames : ReplacedBy(load_dataframe(host, df_in), df_in)
    /\ host = "api0" =>
         \A df_in \in Sheets :
           ReplacedBy(api0_import_excel(dataframe, df_in), df_in)

(* ======================== properties of snapshots ====================== *)
\* the entries of a table, without index labels
Entries(df) == [i \in DOMAIN df.rows |-> df.rows[i].cells]

(* C13: a snapshot has copy semantics: when it is obtained it shows the    *)
(* register's entries, no later mutation of the register changes it, and   *)
(* a write made through the snapshot does not change the register.         *)
C13_SnapshotIsCopy ==
    [][/\ last'.op = "get_dataframe" =>
            Entries(snapshot'.df) = Entries(dataframe)
       /\ (snapshot.held /\ last'.op \notin {"get_dataframe",
                                              "write_snapshot"}) =>
            snapshot'.df = snapshot.df
       /\ last'.op = "write_snapshot" => dataframe' = dataframe]_vars

(* ======================= properties of the dashboard =================== *)
\* a cell holds text: it is neither empty text nor a missing value
HasText(v) == v # "" /\ v # NaN

\* the positions of the entries that count as analysed: top-level
\* function and severity both non-empty
AnalysedRows(df) ==
    {i \in DOMAIN df.rows : /\ HasText(df.rows[i].cells["Func1"])
                            /\ HasText(df.rows[i].cells["Severity"])}

\* number of analysed entries with function f and severity c
PairCount(df, f, c) ==
    Cardinality({i \in AnalysedRows(df) :
                   /\ df.rows[i].cells["Func1"] = f
                   /\ df.rows[i].cells["Severity"] = c})

\* the categories of the enumeration that occur among analysed entries,
\* in the enumeration's order
PresentCategories(df) ==
    LET Occurs(c) ==
            /\ c # ""
            /\ \E i \in AnalysedRows(df) : df.rows[i].cells["Severity"] = c
    IN  SelectSeq(ARP4761_CATEGORIES, Occurs)

\* the cross tabulation a host answers for the register df, brought to
\* one form: row names, column headers (for fha_api0 the keys of each
\* row), cells as text, summary.  fha_api answers {} or nothing at all
\* for a tabulation without rows
CrossOf(h, df) ==
    IF h = "api0"
    THEN LET o == api0_get_cross_analysis_data(df).out
         IN  [rows |-> [i \in DOMAIN o.matrix |-> o.matrix[i].function],
              columns |-> IF o.matrix = <<>> THEN <<>>
                          ELSE [j \in DOMAIN o.matrix[1].cells |->
                                  o.matrix[1].cells[j][1]],
              headers |-> [i \in DOMAIN o.matrix |->
                             [j \in DOMAIN o.matrix[i].cells |->
                                o.matrix[i].cells[j][1]]],
              cells |-> [i \in DOMAIN o.matrix |->
                           [j \in DOMAIN o.matrix[i].cells |->
                              ToString(o.matrix[i].cells[j][2])]],
              summary |-> o.summary]
    ELSE IF h = "api"
    THEN LET o == api_get_dashboard_data(df).out
         IN  IF "cross_analysis" \notin DOMAIN o
             THEN [rows |-> <<>>, columns |-> <<>>, headers |-> <<>>,
                   cells |-> <<>>, summary |-> NoneAnalyzedText]
             ELSE IF DOMAIN o.cross_analysis.matrix = {}
             THEN [rows |-> <<>>, columns |-> <<>>, headers |-> <<>>,
                   cells |-> <<>>,
                   summary |-> o.cross_analysis.summary_text]
             ELSE LET m == o.cross_analysis.matrix
                  IN  [rows |-> m.index,
                       columns |-> m.columns,
                       headers |-> [i \in DOMAIN m.index |-> m.columns],
                       cells |-> [i \in DOMAIN m.index |->
                                    [j \in DOMAIN m.columns |->
                                       ToString(m.data[i][j])]],
                       summary |-> o.cross_analysis.summary_text]
    ELSE LET o == gui_refresh_dashboard(df).out.cross
         IN  [rows |-> o.vertical,
              columns |-> o.horizontal,
              headers |-> [i \in DOMAIN o.vertical |-> o.horizontal],
              cells |-> o.items,
              summary |-> o.summary_text]

\* the last operation was a query that answers the cross tabulation
AfterCrossTabulation ==
    last.op \in {"get_dashboard_data", "get_cross_analysis_data",
                 "refresh_dashboard"}

(* C14: every dashboard query is read-only: a step of get_dashboard_data,  *)
(* get_dashboard_kpis, get_sunburst_data, get_cross_analysis_data or       *)
(* refresh_dashboard leaves the register's entries, order and identifiers  *)
(* as they were.                                                           *)
C14_QueriesReadOnly ==
    [][last'.op \in QueryOps => dataframe' = dataframe]_vars

\* the cross tabulation was just asked of a register that holds an
\* entry without severity next to an analysed one
C14_Witness ==
    /\ last.op = "get_cross_analysis_data"
    /\ AnalysedRows(dataframe) # {}
    /\ \E i \in DOMAIN dataframe.rows :
         dataframe.rows[i].cells["Severity"] = ""

\* the three counts the claims prescribe for the register df
ExpectedKpis(df) ==
    [total_items |->
         Cardinality({i \in DOMAIN df.rows :
                        HasText(df.rows[i].cells["FailureMode"])}),
     catastrophic_count |->
         Cardinality({i \in DOMAIN df.rows :
                        df.rows[i].cells["Severity"] = CATASTROPHIC}),
     hazardous_count |->
         Cardinality({i \in DOMAIN df.rows :
                        df.rows[i].cells["Severity"] = HAZARDOUS})]

\* host h answers the counts k for the register df
AnswersKpis(h, df, k) ==
    IF h = "api0" THEN api0_get_dashboard_kpis(df).out = k
    ELSE IF h = "api"
    THEN LET o == api_get_dashboard_data(df).out
         IN  "kpis" \in DOMAIN o /\ o.kpis = k
    ELSE gui_refresh_dashboard(df).out.kpis
           = [total_label |-> ToString(k.total_items),
              cat_label |-> ToString(k.catastrophic_count),
              haz_label |-> ToString(k.hazardous_count)]

(* C15: the KPI query answers totalAnalyzed = the number of entries whose  *)
(* failure mode is non-empty, and catastrophicCount / hazardousCount = the *)
(* number of entries whose severity is exactly the Catastrophic /          *)
(* Hazardous label, counted over all entries.                              *)
C15_KpiCounts == AnswersKpis(host, dataframe, ExpectedKpis(dataframe))

(* C16: on an empty register the KPI query answers the three counts, all   *)
(* zero, not an error and not an answer of another shape.                  *)
C16_KpisOfEmptyRegister ==
    dataframe.rows = <<>> =>
        AnswersKpis(host, dataframe,
                    [total_items |-> 0, catastrophic_count |-> 0,
                     hazardous_count |-> 0])

\* the column headers of the categories cats
Headers(cats) == [j \in DOMAIN cats |-> FirstWord(cats[j])]

(* C17: in every register state the columns of the cross tabulation are    *)
(* the severity enumeration in its canonical order, restricted to the      *)
(* categories that occur among analysed rows: never the empty category,    *)
(* never a category without an analysed row.                               *)
C17_ColumnOrder ==
    LET t == CrossOf(host, dataframe)
    IN  /\ t.columns = Headers(PresentCategories(dataframe))
        /\ \A i \in DOMAIN t.rows : t.headers[i] = t.columns

\* the cross tabulation was just asked of a register in which a Hazardous
\* row precedes a Catastrophic one and some analysed-looking row lacks a
\* severity, so canonical, sorted and first-seen order all differ
C17_Witness ==
    /\ AfterCrossTabulation
    /\ \E i, j \in AnalysedRows(dataframe) :
         /\ i < j
         /\ dataframe.rows[i].cells["Severity"] = HAZARDOUS
         /\ dataframe.rows[j].cells["Severity"] = CATASTROPHIC
    /\ \E i \in DOMAIN dataframe.rows :
         dataframe.rows[i].cells["Severity"] = ""

(* C18: the cross tabulation has one row per distinct top-level function   *)
(* among the entries with both function and severity non-empty, and the    *)
(* cell of function f and category c is the number of such entries with    *)
(* function f and severity c, 0 (not absent) when there is none; entries   *)
(* with empty function or empty severity contribute to no cell.            *)
C18_RowsAndCells ==
    LET t == CrossOf(host, dataframe)
        cats == PresentCategories(dataframe)
    IN  /\ IsDistinct(t.rows)
        /\ Range(t.rows)
             = {dataframe.rows[i].cells["Func1"] :
                  i \in AnalysedRows(dataframe)}
        /\ \A i \in DOMAIN t.rows :
             /\ Len(t.cells[i]) = Len(cats)
             /\ \A j \in DOMAIN cats :
                  t.cells[i][j]
                    = ToString(PairCount(dataframe, t.rows[i], cats[j]))

\* the cross tabulation was just asked of a register with two analysed
\* functions, one of which lacks a category the other has, and with an
\* entry that has a severity but no function
C18_Witness ==
    /\ AfterCrossTabulation
    /\ \E i, j \in AnalysedRows(dataframe) :
         /\ dataframe.rows[i].cells["Func1"] # dataframe.rows[j].cells["Func1"]
         /\ dataframe.rows[j].cells["Severity"] = CATASTROPHIC
         /\ PairCount(dataframe, dataframe.rows[i].cells["Func1"],
                      CATASTROPHIC) = 0
    /\ \E i \in DOMAIN dataframe.rows :
         /\ dataframe.rows[i].cells["Func1"] = ""
         /\ dataframe.rows[i].cells["Severity"] = CATASTROPHIC

\* Catastrophic plus Hazardous analysed entries of function f
HighRiskCount(df, f) ==
    PairCount(df, f, CATASTROPHIC) + PairCount(df, f, HAZARDOUS)

(* C19: when at least one analysed entry is Catastrophic or Hazardous, the *)
(* summary names the function with the highest combined Catastrophic and   *)
(* Hazardous count, a tie going to the function that comes first in the    *)
(* row order of the tabulation, and reports that function's Catastrophic   *)
(* and Hazardous counts; when there is no such entry it names no function. *)
C19_TopFunction ==
    LET t == CrossOf(host, dataframe)
        H(i) == HighRiskCount(dataframe, t.rows[i])
    IN  IF \E f \in Range(t.rows) : HighRiskCount(dataframe, f) > 0
        THEN /\ Len(t.summary.focus) = 1
             /\ \E i \in DOMAIN t.rows :
                  /\ t.summary.focus[1].top_func = t.rows[i]
                  /\ \A j \in DOMAIN t.rows : H(j) <= H(i)
                  /\ \A j \in 1 .. i - 1 : H(j) < H(i)
                  /\ t.summary.focus[1].top_func_cat_count
                       = PairCount(dataframe, t.rows[i], CATASTROPHIC)
                  /\ t.summary.focus[1].top_func_haz_count
                       = PairCount(dataframe, t.rows[i], HAZARDOUS)
        ELSE t.summary.focus = <<>>

\* the cross tabulation was just asked of a register in which two
\* functions tie for the highest count and the one that comes later in
\* the register is the one named
C19_Witness ==
    /\ AfterCrossTabulation
    /\ \E i, j \in AnalysedRows(dataframe) :
         /\ i < j
         /\ dataframe.rows[i].cells["Func1"] = "pwr"
         /\ dataframe.rows[j].cells["Func1"] = "nav"
         /\ HighRiskCount(dataframe, "pwr") = HighRiskCount(dataframe, "nav")
         /\ HighRiskCount(dataframe, "nav") > 0
         /\ CrossOf(host, dataframe).summary.focus[1].top_func = "nav"

\* the positions of the entries the breakdown considers
QualifyingRows(df) ==
    {i \in AnalysedRows(df) :
       df.rows[i].cells["Severity"] # NO_SAFETY_EFFECT}

\* the breakdown a host answers for the register df, brought to one
\* form: a list of nodes, each a function with its leaves.  fha_api
\* answers {} or nothing at all for a breakdown without nodes
NodesOf(h, df) ==
    IF h = "api0"
    THEN LET o == api0_get_sunburst_data(df).out
         IN  [i \in DOMAIN o.data |->
                [function |-> o.data[i].function,
                 leaves |-> o.data[i].categories]]
    ELSE LET o == api_get_dashboard_data(df).out
         IN  IF "sunburst_data" \notin DOMAIN o THEN <<>>
             ELSE IF DOMAIN o.sunburst_data = {} THEN <<>>
             ELSE [i \in DOMAIN o.sunburst_data.children |->
                     LET node == o.sunburst_data.children[i]
                     IN  [function |-> node.name,
                          leaves |-> [j \in DOMAIN node.children |->
                                        [category |-> node.children[j].name,
                                         count |-> node.children[j].value]]]]

(* C20: the hierarchical breakdown considers exactly the entries with      *)
(* non-empty function, non-empty severity and a severity other than the    *)
(* no-safety-effect label: it has one node per distinct function among     *)
(* them, the leaves of a node are one per severity present for that        *)
(* function, each with the number of qualifying entries of that function   *)
(* and severity, and it is empty when no entry qualifies.                  *)
C20_Breakdown ==
    host \in {"api", "api0"} =>
      LET nodes == NodesOf(host, dataframe)
          q == QualifyingRows(dataframe)
      IN  /\ IsDistinct([i \in DOMAIN nodes |-> nodes[i].function])
          /\ {nodes[i].function : i \in DOMAIN nodes}
               = {dataframe.rows[i].cells["Func1"] : i \in q}
          /\ \A i \in DOMAIN nodes :
               LET f == nodes[i].function
                   leaves == nodes[i].leaves
               IN  /\ IsDistinct([j \in DOMAIN leaves |->
                                    leaves[j].category])
                   /\ {leaves[j].category : j \in DOMAIN leaves}
                        = {dataframe.rows[k].cells["Severity"] :
                             k \in {k \in q :
                                      dataframe.rows[k].cells["Func1"] = f}}
                   /\ \A j \in DOMAIN leaves :
                        leaves[j].count
                          = Cardinality(
                              {k \in q :
                                 /\ dataframe.rows[k].cells["Func1"] = f
                                 /\ dataframe.rows[k].cells["Severity"]
                                      = leaves[j].category})

(* ----------------------- the ranked risk list -------------------------- *)
\* C21: the ranked risk list asked for with limit n has at most n entries,
\* each the display fields of a register entry with a severity category;
\* ranks never increase along the list, entries of equal rank keep their
\* register order, and no entry with a severity category that was left out
\* has a higher rank than a listed one.
C21_TopRisks ==
    last.op = "top_risks" =>
        LET n == last.pos
            out == last.result
            ps == RankedPositions(dataframe, n)
            sev(p) == dataframe.rows[p].cells["Severity"]
        IN  /\ Len(out) <= n
            /\ Len(ps) = Len(out)
            /\ \A i \in 1 .. Len(ps) :
                /\ ps[i] \in 1 .. Len(dataframe.rows)
                /\ HasText(sev(ps[i]))
                /\ out[i] = [f \in {"ID", "Func1", "FailureMode", "Severity"}
                                |-> dataframe.rows[ps[i]].cells[f]]
            /\ \A i, j \in 1 .. Len(ps) :
                i < j =>
                    /\ SeverityRank(sev(ps[i])) >= SeverityRank(sev(ps[j]))
                    /\ SeverityRank(sev(ps[i])) = SeverityRank(sev(ps[j]))
                           => ps[i] < ps[j]
            /\ \A q \in 1 .. Len(dataframe.rows) :
                (HasText(sev(q)) /\ q \notin Range(ps)) =>
                    \A i \in 1 .. Len(ps) :
                        SeverityRank(sev(q)) <= SeverityRank(sev(ps[i]))

\* a list cut at n = 1 out of three ranked entries, two of them tied, with
\* the higher ranked entry behind a lower ranked one in the register
C21_Witness ==
    /\ last.op = "top_risks"
    /\ last.pos = 2
    /\ Len(last.result) = 2
    /\ Len(dataframe.rows) = 3
    /\ \A p \in 1 .. 3 : HasText(dataframe.rows[p].cells["Severity"])
    /\ RankAt(dataframe, 1) < RankAt(dataframe, 2)
    /\ RankAt(dataframe, 2) = RankAt(dataframe, 3)

(* ------------------------ the severity enumeration --------------------- *)
\* C22: in every reachable register every entry's severity category is one
\* of the six values of ARP4761_CATEGORIES (unset or one of the five
\* labels), whatever was supplied to the operations.
C22_SeverityEnumerated ==
    \A i \in 1 .. Len(dataframe.rows) :
        dataframe.rows[i].cells["Severity"] \in Range(ARP4761_CATEGORIES)

(* --------------------------- the project store ------------------------- *)
\* the register of project b in the store (db, ms)
RegisterOf(db, ms, b) == ms[db[b].model]

\* C23: a request addressed to project a leaves every other project in
\* the store and leaves its register as it was; a created project starts
\* with an empty register that no other project holds.
C23_ProjectsIndependent ==
    [][ LET a == last'.project_id
        IN  /\ \A b \in DOMAIN projects_db :
                 b # a =>
                    /\ b \in DOMAIN projects_db'
                    /\ RegisterOf(projects_db', models', b)
                           = RegisterOf(projects_db, models, b)
            /\ last'.op = "create_project" =>
                    /\ a \in DOMAIN projects_db'
                    /\ RegisterOf(projects_db', models', a)
                           = [columns |-> TABLE_COLUMNS, rows |-> <<>>]
                    /\ \A b \in DOMAIN projects_db' :
                           b # a => projects_db'[b].model
                                       # projects_db'[a].model
      ]_vars

\* an entry was added to one project while another project holds entries
C23_Witness ==
    /\ last.op = "add_entry"
    /\ last.result = "ok"
    /\ last.project_id \in DOMAIN projects_db
    /\ \E b \in DOMAIN projects_db :
        /\ b # last.project_id
        /\ Len(RegisterOf(projects_db, models, b).rows) = 1
        /\ Len(RegisterOf(projects_db, models, last.project_id).rows) = 1

\* C28: a request naming a project that is not in the store (never
\* created, or deleted) fails with not-found and changes neither the
\* store nor any register; delete_project removes exactly the named
\* project, and a deleted project never comes back.
C28_UnknownProjectNotFound ==
    [][ LET a == last'.project_id
        IN  /\ (last'.op # "create_project" /\ a \notin DOMAIN projects_db)
                 => /\ last'.result = "HTTP404"
                    /\ projects_db' = projects_db
                    /\ models' = models
            /\ (last'.op = "delete_project" /\ a \in DOMAIN projects_db)
                 => /\ DOMAIN projects_db' = DOMAIN projects_db \ {a}
                    /\ \A b \in DOMAIN projects_db' :
                           projects_db'[b] = projects_db[b]
                    /\ models' = models
            /\ \A b \in uuids :
                 b \notin DOMAIN projects_db => b \notin DOMAIN projects_db'
      ]_vars

(* ------------------------- concurrent requests ------------------------- *)
\* the register after request th has run alone on df
AfterRequest(df, th) ==
    IF th.op = "new_project" THEN api_new_project(df, th.entries).df
    ELSE api_delete_rows(df, th.indices).df

\* C24: two mutation requests issued concurrently against the register
\* are serialized: once both have returned, the register is what running
\* them one after the other, in one of the two orders, gives.
C24_Serialized ==
    (DOMAIN threads = ThreadIds /\ \A t \in ThreadIds : threads[t].pc = "done")
        => \E a, b \in ThreadIds :
              /\ a # b
              /\ dataframe = AfterRequest(
                                 AfterRequest(new_blank_dataframe, threads[a]),
                                 threads[b])

(* ----------------------------- renumbering ----------------------------- *)
\* C25: renumbering is total and idempotent: whatever the identifiers
\* were before (one may have been overwritten by a cell update), right
\* after every structural mutation that is not a no-op every identifier
\* is the one of its position, FHA-001..FHA-n, and renumbering the
\* register once more changes nothing.
C25_RenumberingTotal ==
    [][ AfterStructuralMutation' =>
            /\ IdsSequential(dataframe')
            /\ re_number_ids(host, dataframe') = dataframe'
      ]_vars

(* ------------------------- the two delete_rows ------------------------- *)
\* the index labels of the rows, in row order
LabelSeq(df) == [i \in DOMAIN df.rows |-> df.rows[i].label]

\* C26: in every reachable register the row labels are 0..n-1 in row
\* order, and for every list of in-range positions the label-based
\* delete_rows of fha_core_logic and the position-filter delete_rows of
\* fha_api give the same register.
C26_DeleteVariantsAgree ==
    /\ LabelSeq(dataframe) = [i \in 1 .. Len(dataframe.rows) |-> i - 1]
    /\ \A row_indices \in DeleteLists :
         Range(row_indices) \subseteq 0 .. Len(dataframe.rows) - 1
            => core_delete_rows(dataframe, row_indices)
                 = api_delete_rows(dataframe, row_indices)

(* ----------------------------- new project ----------------------------- *)
\* C27: after the new-project operation with a list of skeleton entries
\* the register holds exactly these entries, in input order, every schema
\* field taken from the entry or empty, with identifiers FHA-001..FHA-n
\* and the 12 schema columns (nothing of the prior register is left; the
\* register is empty for an empty list), and the reported total is n.
C27_NewProject ==
    (last.op = "new_project" /\ last.result.err = "ok") =>
        LET entries == last.arg
        IN  /\ dataframe.columns = TABLE_COLUMNS
            /\ Len(dataframe.rows) = Len(entries)
            /\ \A i \in 1 .. Len(entries) :
                 dataframe.rows[i].cells
                    = [c \in Range(TABLE_COLUMNS) |->
                          IF c = "ID" THEN IdTable[i]
                          ELSE DictGet(entries[i], c, "")]
            /\ last.result.total = Len(entries)

\* a third operation creates a project of two entries
C27_Witness ==
    /\ last.op = "new_project"
    /\ last.result.err = "ok"
    /\ Len(last.arg) = 2
    /\ Len(dataframe.rows) = 2
    /\ ops = 3

(* ------------------- wizard expansion out of range --------------------- *)
\* C29: a wizard expansion with a non-empty list of results and a source
\* position outside [0, len), too large or negative, fails with an error
\* and leaves the register exactly as it was -- through the register
\* method of each program and through the fha_api0 handler.
C29_WizardOutOfRangeFails ==
    \A source_index \in Positions \cup {OutPos},
       results \in ResultLists \ {<<>>} :
        source_index \notin 0 .. Len(dataframe.rows) - 1 =>
            LET r == update_fha_entries_from_wizard(host, dataframe,
                                                    source_index, results)
                q == api0_run_analysis_wizard(dataframe, source_index,
                                              results)
            IN  /\ r.err # "ok"
                /\ r.df = dataframe
                /\ host = "api0" => (q.err # "ok" /\ q.df = dataframe)

(* ------------------- high-risk total against the KPIs ------------------ *)
\* the number a label of the dashboard shows
NumberShown(text) == CHOOSE n \in 0 .. MaxRows + 2 : ToString(n) = text

\* catastrophic_count + hazardous_count as host h answers them
HighRiskKpis(h, df) ==
    IF h = "api0"
    THEN LET o == api0_get_dashboard_kpis(df).out
         IN  o.catastrophic_count + o.hazardous_count
    ELSE IF h = "api"
    THEN LET o == api_get_dashboard_data(df).out
         IN  o.kpis.catastrophic_count + o.kpis.hazardous_count
    ELSE LET o == gui_refresh_dashboard(df).out.kpis
         IN  NumberShown(o.cat_label) + NumberShown(o.haz_label)

\* some Catastrophic or Hazardous entry has no top-level function name
HighRiskWithoutFunction(df) ==
    \E i \in DOMAIN df.rows :
        /\ df.rows[i].cells["Severity"] \in {CATASTROPHIC, HAZARDOUS}
        /\ ~HasText(df.rows[i].cells["Func1"])

\* C30: whenever the summary of the cross tabulation reports a high-risk
\* total, the total is at most catastrophic_count + hazardous_count of
\* the KPIs, and equal to it exactly when no Catastrophic or Hazardous
\* entry has an empty top-level function name.
C30_HighRiskTotal ==
    LET s == CrossOf(host, dataframe).summary
    IN  s.kind = "report" =>
            /\ s.high_risk_items <= HighRiskKpis(host, dataframe)
            /\ s.high_risk_items = HighRiskKpis(host, dataframe)
                   <=> ~HighRiskWithoutFunction(dataframe)

====
